---- MODULE Spec2Model ----
(***************************************************************************)
(* The image-match HTTP service of src/server.py: the add, delete, search, *)
(* compare, count, list and ping handlers over one Elasticsearch index.    *)
(*                                                                         *)
(* Every backend call (es.search, es.index, es.delete, es.count) is one    *)
(* atomic step that takes effect before it returns; a handler that makes   *)
(* several calls is a sequence of steps that other requests interleave     *)
(* with.  Distances are integers in percent (0..100).  A call may find the  *)
(* backend down: the client then makes it again, max_retries times at      *)
(* most, before the handler fails.                                         *)
(***************************************************************************)
EXTENDS Integers, Sequences, FiniteSets, TLC

\* ---------------------------------------------------------------- bounds
NumProcs == 2       \* requests the server handles at the same time
MaxIds == 3         \* documents indexed in one run
MaxSize == 2        \* largest candidate page (ses.size) the model configures
MaxArg == 1         \* largest |offset|, |limit| a list request carries

\* Elasticsearch returns at most `size` hits of a search, 10 when the
\* request names none, as the request of ids_with_path does.  The model
\* scales that page down so that NumProcs overlapping adds can overfill it.
DefaultSize == 1

\* limit of a list request that names none
DefaultLimit == 20

Procs == 1 .. NumProcs
Paths == {"p.jpg", "q.jpg"}
Metadatas == {"null"}

\* An image is identified with the signature gis.generate_signature gives
\* it (deterministic, one small integer per region).  None is all zero.
\* Seen from the first: same words at distance 14, one word shared at
\* distance 50, no word shared at distance 20.
Images == { <<1, 1, 1>>, <<2, 1, 1>>, <<1, 1, -3>>, <<1, 0, 1>> }

Cutoffs == {0, 50}

Abs(x) == IF x < 0 THEN 0 - x ELSE x
Min(a, b) == IF a < b THEN a ELSE b
Max(a, b) == IF a > b THEN a ELSE b

RECURSIVE SumTo(_, _)
SumTo(f, n) == IF n = 0 THEN 0 ELSE f[n] + SumTo(f, n - 1)

Norm(s) == SumTo([i \in 1 .. Len(s) |-> Abs(s[i])], Len(s))

\* image_match's normalized_distance: |a - b| / (|a| + |b|), symmetric,
\* 0 on equal signatures, at most 1; here in percent.
normalized_distance(a, b) ==
    (100 * Norm([i \in 1 .. Len(a) |-> a[i] - b[i]])) \div (Norm(a) + Norm(b))

Sign(x) == IF x > 0 THEN 1 ELSE IF x < 0 THEN -1 ELSE 0

\* the word slots of a record, a lossy bucketing of the signature: slot i
\* is the window of signs that starts at region i
Words(sig) == [i \in 1 .. Len(sig) - 1 |-> << Sign(sig[i]), Sign(sig[i + 1]) >>]

make_record(img) == [signature |-> img, words |-> Words(img)]

dist_to_percent(dist) == 100 - dist

RECURSIVE SortById(_)
SortById(S) ==
    IF S = {} THEN << >>
    ELSE LET m == CHOOSE x \in S : \A y \in S : x.id <= y.id
         IN  << m >> \o SortById(S \ {m})

\* ----------------------------------------------------------------- state
VARIABLES
    store,            \* the documents of the index
    nextId,           \* the next identifier the engine assigns
    size,             \* ses.size
    distance_cutoff,  \* ses.distance_cutoff
    pc,               \* per request slot: the handler's position
    req,              \* per request slot: the request being handled
    old_ids,          \* per request slot: ids still to delete
    overlap,          \* per request slot: the adds and deletes that ran meanwhile
    before,           \* per request slot: the store when the request began,
                      \* kept while the request runs alone
    last,             \* the response just sent (NoResp after any later step)
    prev,             \* the add or delete completed most recently
    added,            \* the paths whose latest completed request was an add
    backend,          \* "up", or "down": every attempt of a call fails or times out
    attempts          \* per request slot: failed attempts of the call in flight

vars == << store, nextId, size, distance_cutoff, pc, req, old_ids, overlap,
           before, last, prev, added, backend, attempts >>

NoReq == [op |-> "none"]
NoResp == [op |-> "none"]

Running(pr) == pc[pr] # "idle"
AllIdle == \A pr \in Procs : ~Running(pr)

Init ==
    /\ store = {}
    /\ nextId = 1
    /\ size \in 1 .. MaxSize
    /\ distance_cutoff \in Cutoffs
    /\ pc = [pr \in Procs |-> "idle"]
    /\ req = [pr \in Procs |-> NoReq]
    /\ old_ids = [pr \in Procs |-> {}]
    /\ overlap = [pr \in Procs |-> "none"]
    /\ before = [pr \in Procs |-> {}]
    /\ last = NoResp
    /\ prev = NoReq
    /\ added = {}
    /\ backend = "up"
    /\ attempts = [pr \in Procs |-> 0]

\* ------------------------------------------------------------- the store
Ids(st) == {r.id : r \in st}
WithPath(st, path) == {r \in st : r.path = path}

\* ids_with_path with a query that matches no document
ids_with_path_none(st, path) == {{}}

\* ids_with_path with a query that matches every document
ids_with_path_any(st, path) ==
    {h \in SUBSET Ids(st) : Cardinality(h) = Min(Cardinality(st), DefaultSize)}

\* es.search(q='path:"..."') with no size: a page of the matching documents
ids_with_path(st, path) ==
    LET m == Ids(WithPath(st, path))
    IN  {h \in SUBSET m : Cardinality(h) = Min(Cardinality(m), DefaultSize)}

\* es.search(from_=offset, size=limit, _source='path'); the engine rejects
\* a negative from or size
paths_at_location(st, offset, limit) ==
    IF offset < 0 \/ limit < 0 THEN [ok |-> FALSE, paths |-> << >>]
    ELSE LET s == SortById(st)
         IN  [ok |-> TRUE,
              paths |-> [i \in 1 .. Max(0, Min(Len(s) - offset, limit)) |->
                           s[offset + i].path]]

\* count_images that counts the hits of a search with no size
count_images_page(st) == Min(Cardinality(st), DefaultSize)

\* es.count(index, doc_type)['count']
count_images(st) == Cardinality(st)

\* es.delete that removes nothing
es_delete_noop(st, i) == st

\* es.delete(id=i, ignore=404)
es_delete(st, i) == {r \in st : r.id # i}

\* ses.add_image: one new document under an id the engine assigns
add_image(st, id, path, img, metadata) ==
    st \cup {[id |-> id, path |-> path, signature |-> img, metadata |-> metadata]}

\* ---------------------------------------------------------------- search
\* the engine's score of a document under a bool/should of one term clause
\* per word slot: the number of clauses it matches
Score(r, words) ==
    Cardinality({i \in DOMAIN words : Words(r.signature)[i] = words[i]})

\* es.search(body={'query': {'bool': {'should': should}}}, size=sz): the
\* documents matching at least one clause, best scores first, at most sz of
\* them; which of several equal scores make the page is the engine's choice
Candidates(st, words) == {r \in st : Score(r, words) > 0}

\* es.search with a match_all query: a page of any documents
es_search_should_all(st, words, sz) ==
    {h \in SUBSET st : Cardinality(h) = Min(Cardinality(st), sz)}

es_search_should(st, words, sz) ==
    LET c == Candidates(st, words)
    IN  {h \in SUBSET c :
            /\ Cardinality(h) = Min(Cardinality(c), sz)
            /\ \A x \in h : \A y \in c \ h : Score(x, words) >= Score(y, words)}

\* search_single_record keeping the candidates beyond the cutoff
search_single_record_far(rec, res, cutoff) ==
    IF res = {} THEN [matches |-> {}, distCalls |-> 0]
    ELSE LET formatted_res ==
                 {[id |-> x.id,
                   score |-> Score(x, rec.words),
                   metadata |-> x.metadata,
                   path |-> x.path,
                   dist |-> normalized_distance(x.signature, rec.signature)] : x \in res}
         IN  [matches |-> {y \in formatted_res : y.dist > cutoff},
              distCalls |-> 1]

\* search_single_record keeping a candidate at the cutoff
search_single_record_le(rec, res, cutoff) ==
    IF res = {} THEN [matches |-> {}, distCalls |-> 0]
    ELSE LET formatted_res ==
                 {[id |-> x.id,
                   score |-> Score(x, rec.words),
                   metadata |-> x.metadata,
                   path |-> x.path,
                   dist |-> normalized_distance(x.signature, rec.signature)] : x \in res}
         IN  [matches |-> {y \in formatted_res : y.dist <= cutoff},
              distCalls |-> 1]

\* search_single_record without the test for an empty candidate array
search_single_record_noguard(rec, res, cutoff) ==
    LET formatted_res ==
            {[id |-> x.id,
              score |-> Score(x, rec.words),
              metadata |-> x.metadata,
              path |-> x.path,
              dist |-> normalized_distance(x.signature, rec.signature)] : x \in res}
    IN  [matches |-> {y \in formatted_res : y.dist < cutoff},
         distCalls |-> 1]

\* FixSignatureES.search_single_record on the hits `res` the engine gave
\* for the record's words; distCalls counts the normalized_distance calls
search_single_record(rec, res, cutoff) ==
    IF res = {} THEN [matches |-> {}, distCalls |-> 0]
    ELSE LET formatted_res ==
                 {[id |-> x.id,
                   score |-> Score(x, rec.words),
                   metadata |-> x.metadata,
                   path |-> x.path,
                   dist |-> normalized_distance(x.signature, rec.signature)] : x \in res}
         IN  [matches |-> {y \in formatted_res : y.dist < cutoff},
              distCalls |-> 1]

\* the result list of search_handler, hits listed by ascending id
search_result(matches) ==
    LET s == SortById(matches)
    IN  [i \in 1 .. Len(s) |->
            [score |-> dist_to_percent(s[i].dist),
             filepath |-> s[i].path,
             metadata |-> s[i].metadata]]

\* list_handler: offset and limit of the request, read from the query
\* string of a GET and from the form of a POST, clamped at 0
ListParam(container, name, default) ==
    IF name \in DOMAIN container THEN container[name] ELSE default

\* list_handler with the POST branch left unclamped
list_handler_noclamp(method, args, form) ==
    IF method = "GET"
    THEN [offset |-> Max(ListParam(args, "offset", 0), 0),
          limit |-> Max(ListParam(args, "limit", DefaultLimit), 0)]
    ELSE [offset |-> ListParam(form, "offset", 0),
          limit |-> ListParam(form, "limit", DefaultLimit)]

list_handler(method, args, form) ==
    IF method = "GET"
    THEN [offset |-> Max(ListParam(args, "offset", 0), 0),
          limit |-> Max(ListParam(args, "limit", DefaultLimit), 0)]
    ELSE [offset |-> Max(ListParam(form, "offset", 0), 0),
          limit |-> Max(ListParam(form, "limit", DefaultLimit), 0)]

\* the fields a list request may carry, each present or not
ListParams == UNION {[d -> -MaxArg .. MaxArg] : d \in SUBSET {"offset", "limit"}}
NoParams == CHOOSE f \in ListParams : DOMAIN f = {}

\* ------------------------------------------------------------ operations
\* what a request (op, path) knows of another that runs while it does:
\* "delete" (a delete of its path), "same_add" (both are adds of one path)
\* or "other"; overlap keeps the worst it has seen, "none" when it ran alone
Rival(op, path, otherOp, otherPath) ==
    IF otherOp = "delete" /\ otherPath = path THEN "delete"
    ELSE IF op = "add" /\ otherOp = "add" /\ otherPath = path THEN "same_add"
    ELSE "other"

Rank(o) == CASE o = "none" -> 0 [] o = "same_add" -> 1 [] o = "other" -> 2
                [] o = "delete" -> 3

Worst(S) == IF S = {} THEN "none"
            ELSE CHOOSE o \in S : \A x \in S : Rank(x) <= Rank(o)

Begin(pr, op, path) ==
    /\ overlap' = [o \in Procs |->
                     IF o = pr
                     THEN Worst({Rival(op, path, req[x].op, req[x].path) :
                                    x \in {y \in Procs : Running(y)}})
                     ELSE IF ~Running(o) THEN "none"
                     ELSE Worst({overlap[o],
                                 Rival(req[o].op, req[o].path, op, path)})]
    /\ before' = [o \in Procs |-> IF o = pr /\ AllIdle THEN store ELSE {}]

Summary(r) == [op |-> r.op, path |-> r.path]

\* a request as the server takes it up; newId is the id its insert got, had
\* whether its path had a record at its lookup, swept the ids its es.delete
\* calls removed and gone the ids they found absent already
Request(op, path, img, metadata) ==
    [op |-> op, path |-> path, img |-> img, metadata |-> metadata,
     newId |-> 0, had |-> FALSE, swept |-> {}, gone |-> {}]

\* adds that have not inserted yet
PendingInserts ==
    Cardinality({o \in Procs : pc[o] \in {"call", "add_insert"} /\ req[o].op = "add"})

\* the response to the add or delete of slot pr
Outcome(pr, status) ==
    [op |-> req[pr].op, status |-> status, path |-> req[pr].path,
     img |-> req[pr].img, newId |-> req[pr].newId,
     overlap |-> overlap[pr], before |-> before[pr], after |-> prev,
     had |-> req[pr].had, swept |-> req[pr].swept, gone |-> req[pr].gone,
     tries |-> attempts[pr]]

\* the request of slot pr is over
Release(pr) ==
    /\ pc' = [pc EXCEPT ![pr] = "idle"]
    /\ req' = [req EXCEPT ![pr] = NoReq]
    /\ old_ids' = [old_ids EXCEPT ![pr] = {}]
    /\ overlap' = [overlap EXCEPT ![pr] = "none"]
    /\ before' = [before EXCEPT ![pr] = {}]
    /\ attempts' = [attempts EXCEPT ![pr] = 0]

\* old_ids = ids_with_path(path), the first backend call of add and delete
FindStep(pr, r, to) ==
    /\ \E h \in ids_with_path(store, r.path) :
          old_ids' = [old_ids EXCEPT ![pr] = h]
    /\ req' = [req EXCEPT ![pr] = [r EXCEPT !.had = WithPath(store, r.path) # {}]]
    /\ pc' = [pc EXCEPT ![pr] = to]

\* add_handler, line 117: old_ids = ids_with_path(path)
AddFind(pr, path, img, metadata) ==
    /\ pc[pr] = "idle"
    /\ backend = "up"
    /\ nextId + PendingInserts <= MaxIds
    /\ FindStep(pr, Request("add", path, img, metadata), "add_insert")
    /\ Begin(pr, "add", path)
    /\ last' = NoResp
    /\ UNCHANGED << store, nextId, size, distance_cutoff, prev, added, backend,
                    attempts >>

\* add_handler, line 118: ses.add_image(path, img, ...)
AddInsert(pr) ==
    /\ pc[pr] = "add_insert"
    /\ backend = "up"
    /\ store' = add_image(store, nextId, req[pr].path, req[pr].img, req[pr].metadata)
    /\ nextId' = nextId + 1
    /\ req' = [req EXCEPT ![pr].newId = nextId]
    /\ pc' = [pc EXCEPT ![pr] = "delete_ids"]
    /\ attempts' = [attempts EXCEPT ![pr] = 0]
    /\ last' = NoResp
    /\ UNCHANGED << size, distance_cutoff, old_ids, overlap, before, prev, added,
                    backend >>

\* add_handler whose failed ses.add_image is followed by delete_ids all the same
AddFail_sweep(pr) ==
    /\ pc[pr] = "add_insert"
    /\ store' = {r \in store : r.id \notin old_ids[pr]}
    /\ last' = Outcome(pr, "fail")
    /\ Release(pr)
    /\ UNCHANGED << nextId, size, distance_cutoff, prev, added, backend >>

\* add_handler, line 118: ses.add_image raises (the image has no signature,
\* or the insert fails) before it wrote anything; the handler ends there
\* and server_error answers
AddFail(pr) ==
    /\ pc[pr] = "add_insert"
    /\ last' = Outcome(pr, "fail")
    /\ Release(pr)
    /\ UNCHANGED << store, nextId, size, distance_cutoff, prev, added, backend >>

\* delete_handler, line 131: ids = ids_with_path(path)
DelFind(pr, path) ==
    /\ pc[pr] = "idle"
    /\ backend = "up"
    /\ FindStep(pr, Request("delete", path, << >>, "null"), "delete_ids")
    /\ Begin(pr, "delete", path)
    /\ last' = NoResp
    /\ UNCHANGED << store, nextId, size, distance_cutoff, prev, added, backend,
                    attempts >>

\* es.delete without ignore=404: a missing document is an error
delete_raises_404(st, i) == i \notin Ids(st)

\* es.delete(id=i, ignore=404): a missing document is no error
delete_raises(st, i) == FALSE

\* delete_ids: one es.delete per id of the list; an es.delete that raises
\* ends the handler and server_error answers
DeleteStep(pr) ==
    /\ pc[pr] = "delete_ids"
    /\ backend = "up"
    /\ \E i \in old_ids[pr] :
          IF delete_raises(store, i)
          THEN /\ last' = Outcome(pr, "fail")
               /\ Release(pr)
               /\ UNCHANGED << store >>
          ELSE /\ store' = es_delete(store, i)
               /\ old_ids' = [old_ids EXCEPT ![pr] = @ \ {i}]
               /\ req' = [req EXCEPT
                            ![pr].swept = IF i \in Ids(store) THEN @ \cup {i} ELSE @,
                            ![pr].gone = IF i \in Ids(store) THEN @ ELSE @ \cup {i}]
               /\ attempts' = [attempts EXCEPT ![pr] = 0]
               /\ last' = NoResp
               /\ UNCHANGED << pc, overlap, before >>
    /\ UNCHANGED << nextId, size, distance_cutoff, prev, added, backend >>

\* add_handler / delete_handler: the list is done, the response is sent
Respond(pr) ==
    /\ pc[pr] = "delete_ids"
    /\ old_ids[pr] = {}
    /\ last' = Outcome(pr, "ok")
    /\ prev' = Summary(req[pr])
    /\ added' = IF req[pr].op = "add" THEN added \cup {req[pr].path}
                ELSE added \ {req[pr].path}
    /\ Release(pr)
    /\ UNCHANGED << store, nextId, size, distance_cutoff, backend >>

\* search_handler with all_orientations false: ses.search_image runs
\* search_single_record once, on the record of the image itself
SearchResponse(img, res) ==
    LET out == search_single_record(make_record(img), res, distance_cutoff)
    IN  [op |-> "search", status |-> "ok", path |-> "none",
         img |-> img, hits |-> res, matches |-> out.matches,
         distCalls |-> out.distCalls,
         result |-> search_result(out.matches), after |-> prev]

Search(img) ==
    /\ backend = "up"
    /\ \E res \in es_search_should(store, make_record(img).words, size) :
          last' = SearchResponse(img, res)
    /\ UNCHANGED << store, nextId, size, distance_cutoff, pc, req, old_ids,
                    overlap, before, prev, added, backend, attempts >>

\* compare_handler
Compare(img1, img2) ==
    /\ last' = [op |-> "compare", status |-> "ok", path |-> "none", img |-> img1,
                result |-> << [score |-> dist_to_percent(normalized_distance(img1, img2))] >>,
                after |-> prev]
    /\ UNCHANGED << store, nextId, size, distance_cutoff, pc, req, old_ids,
                    overlap, before, prev, added, backend, attempts >>

\* count_handler
CountResponse ==
    [op |-> "count", status |-> "ok", path |-> "none", img |-> << >>,
     result |-> << count_images(store) >>, after |-> prev]

Count ==
    /\ backend = "up"
    /\ last' = CountResponse
    /\ UNCHANGED << store, nextId, size, distance_cutoff, pc, req, old_ids,
                    overlap, before, prev, added, backend, attempts >>

\* list_handler; a request the engine rejects ends in server_error
ListResponse(method, params) ==
    LET args == IF method = "GET" THEN params ELSE NoParams
        form == IF method = "POST" THEN params ELSE NoParams
        scan == list_handler(method, args, form)
        got == paths_at_location(store, scan.offset, scan.limit)
    IN  [op |-> "list", status |-> IF got.ok THEN "ok" ELSE "fail",
         path |-> "none", img |-> << >>, method |-> method,
         params |-> params, scan |-> scan,
         result |-> got.paths,
         after |-> prev]

List(method, params) ==
    /\ backend = "up"
    /\ last' = ListResponse(method, params)
    /\ UNCHANGED << store, nextId, size, distance_cutoff, pc, req, old_ids,
                    overlap, before, prev, added, backend, attempts >>

\* ping_handler
Ping ==
    /\ last' = [op |-> "ping", status |-> "ok", path |-> "none", img |-> << >>,
                result |-> << >>, after |-> prev]
    /\ UNCHANGED << store, nextId, size, distance_cutoff, pc, req, old_ids,
                    overlap, before, prev, added, backend, attempts >>

\* the client reads the response it was sent
Deliver ==
    /\ last # NoResp
    /\ last' = NoResp
    /\ UNCHANGED << store, nextId, size, distance_cutoff, pc, req, old_ids,
                    overlap, before, prev, added, backend, attempts >>

\* an add or a delete the server takes up, with an image among imgs
StartOn(pr, imgs) ==
    \/ \E path \in Paths, img \in imgs, metadata \in Metadatas :
          AddFind(pr, path, img, metadata)
    \/ \E path \in Paths : DelFind(pr, path)

Start(pr) == StartOn(pr, Images)

\* a request that makes one backend call at most
Single ==
    \/ \E img \in Images : Search(img)
    \/ \E img1 \in Images, img2 \in Images : Compare(img1, img2)
    \/ Count
    \/ \E method \in {"GET", "POST"}, params \in ListParams : List(method, params)
    \/ Ping

Step(pr) ==
    \/ AddInsert(pr)
    \/ AddFail(pr)
    \/ DeleteStep(pr)
    \/ Respond(pr)

\* requests overlap freely; a single-call request is looked at once the
\* response before it has been read
Next ==
    \/ \E pr \in Procs : Start(pr)
    \/ \E pr \in Procs : Step(pr)
    \/ last = NoResp /\ Single
    \/ Deliver

Spec == Init /\ [][Next]_vars

\* requests run one at a time
SeqNext ==
    \/ AllIdle /\ \E pr \in Procs : Start(pr)
    \/ \E pr \in Procs : Step(pr)
    \/ AllIdle /\ last = NoResp /\ Single
    \/ Deliver

SeqSpec == Init /\ [][SeqNext]_vars

\* overlapping add and delete requests alone, under one configuration and
\* with one image, which no lookup by path and no delete depends on
RaceInit ==
    /\ Init
    /\ size = MaxSize
    /\ distance_cutoff = 50

OneImage == {CHOOSE img \in Images : \A i \in DOMAIN img : img[i] > 0 /\ img[i] <= 1}

RaceNext ==
    \/ \E pr \in Procs : StartOn(pr, OneImage)
    \/ \E pr \in Procs : Step(pr)

RaceSpec == RaceInit /\ [][RaceNext]_vars

\* ------------------------------------------------- a backend that fails
\* Elasticsearch(..., timeout=60, max_retries=10, retry_on_timeout=True): an
\* attempt of a call that fails or times out is made again, max_retries
\* times at most; the failure of the attempt after those is raised
max_retries == 10

ListRequest(method, params) ==
    [op |-> "list", path |-> "none", img |-> << >>, metadata |-> "null",
     newId |-> 0, had |-> FALSE, swept |-> {}, gone |-> {},
     method |-> method, params |-> params]

\* the server takes a request up; its first backend call is still to make
Accept(pr, r) ==
    /\ pc[pr] = "idle"
    /\ r.op = "add" => nextId + PendingInserts <= MaxIds
    /\ pc' = [pc EXCEPT ![pr] = "call"]
    /\ req' = [req EXCEPT ![pr] = r]
    /\ Begin(pr, r.op, r.path)
    /\ last' = NoResp
    /\ UNCHANGED << store, nextId, size, distance_cutoff, old_ids, prev, added,
                    backend, attempts >>

\* the requests that call the backend, with a path among paths and an
\* image among imgs
Arrive(pr, paths, imgs) ==
    \/ \E path \in paths, img \in imgs, metadata \in Metadatas :
          Accept(pr, Request("add", path, img, metadata))
    \/ \E path \in paths : Accept(pr, Request("delete", path, << >>, "null"))
    \/ \E img \in imgs : Accept(pr, Request("search", "none", img, "null"))
    \/ Accept(pr, Request("count", "none", << >>, "null"))
    \/ \E method \in {"GET", "POST"} : Accept(pr, ListRequest(method, NoParams))

\* the first call of an add or a delete succeeds: ids_with_path
CallFind(pr) ==
    /\ pc[pr] = "call"
    /\ req[pr].op \in {"add", "delete"}
    /\ backend = "up"
    /\ FindStep(pr, req[pr], IF req[pr].op = "add" THEN "add_insert" ELSE "delete_ids")
    /\ attempts' = [attempts EXCEPT ![pr] = 0]
    /\ last' = NoResp
    /\ UNCHANGED << store, nextId, size, distance_cutoff, overlap, before, prev,
                    added, backend >>

\* search_handler that indexes the image it searches for
CallRead_indexing(pr) ==
    /\ pc[pr] = "call"
    /\ req[pr].op \in {"search", "count", "list"}
    /\ backend = "up"
    /\ \/ /\ req[pr].op = "search"
          /\ \E res \in es_search_should(store, make_record(req[pr].img).words, size) :
                last' = SearchResponse(req[pr].img, res)
          /\ store' = add_image(store, nextId, "none", req[pr].img, "null")
       \/ /\ req[pr].op = "count"
          /\ last' = CountResponse
          /\ UNCHANGED store
       \/ /\ req[pr].op = "list"
          /\ last' = ListResponse(req[pr].method, req[pr].params)
          /\ UNCHANGED store
    /\ Release(pr)
    /\ UNCHANGED << nextId, size, distance_cutoff, prev, added, backend >>

\* the one call of a search, a count or a list succeeds
CallRead(pr) ==
    /\ pc[pr] = "call"
    /\ req[pr].op \in {"search", "count", "list"}
    /\ backend = "up"
    /\ \/ /\ req[pr].op = "search"
          /\ \E res \in es_search_should(store, make_record(req[pr].img).words, size) :
                last' = SearchResponse(req[pr].img, res)
       \/ /\ req[pr].op = "count"
          /\ last' = CountResponse
       \/ /\ req[pr].op = "list"
          /\ last' = ListResponse(req[pr].method, req[pr].params)
    /\ Release(pr)
    /\ UNCHANGED << store, nextId, size, distance_cutoff, prev, added, backend >>

\* the handler of slot pr waits for a backend call
Pending(pr) ==
    \/ pc[pr] \in {"call", "add_insert"}
    \/ pc[pr] = "delete_ids" /\ old_ids[pr] # {}

\* an attempt fails or times out and the client makes the call again
Retry(pr) ==
    /\ Pending(pr)
    /\ backend = "down"
    /\ attempts[pr] < max_retries
    /\ attempts' = [attempts EXCEPT ![pr] = @ + 1]
    /\ last' = NoResp
    /\ UNCHANGED << store, nextId, size, distance_cutoff, pc, req, old_ids,
                    overlap, before, prev, added, backend >>

\* a client that makes the call again however often it failed
GiveUp_never(pr) ==
    /\ Pending(pr)
    /\ backend = "down"
    /\ attempts[pr] = max_retries
    /\ UNCHANGED vars

\* the attempt after the last retry fails: the client raises, the handler
\* ends there and server_error answers
GiveUp(pr) ==
    /\ Pending(pr)
    /\ backend = "down"
    /\ attempts[pr] = max_retries
    /\ last' = Outcome(pr, "fail")
    /\ Release(pr)
    /\ UNCHANGED << store, nextId, size, distance_cutoff, prev, added, backend >>

\* the backend goes down or comes back between two attempts, once the
\* response before has been read
Outage ==
    /\ last = NoResp
    /\ backend = "up"
    /\ backend' = "down"
    /\ UNCHANGED << store, nextId, size, distance_cutoff, pc, req, old_ids,
                    overlap, before, last, prev, added, attempts >>

Recover ==
    /\ last = NoResp
    /\ backend = "down"
    /\ backend' = "up"
    /\ UNCHANGED << store, nextId, size, distance_cutoff, pc, req, old_ids,
                    overlap, before, last, prev, added, attempts >>

\* what the thread of slot pr does next
Move(pr) ==
    \/ CallFind(pr)
    \/ CallRead(pr)
    \/ Step(pr)
    \/ Retry(pr)
    \/ GiveUp(pr)

\* OneImage and the images that share no word-slot value with it
TwoImages ==
    OneImage \cup {img \in Images :
                      \A x \in OneImage :
                          Score([signature |-> img], make_record(x).words) = 0}

\* requests one at a time, on paths and imgs, against a backend that goes
\* down and comes back
RetryStep(paths, imgs) ==
    \/ AllIdle /\ Arrive(CHOOSE pr \in Procs : TRUE, paths, imgs)
    \/ \E pr \in Procs : Move(pr)
    \/ AllIdle /\ last = NoResp /\ \E img1 \in imgs, img2 \in imgs : Compare(img1, img2)
    \/ AllIdle /\ last = NoResp /\ Ping
    \/ Outage
    \/ Recover
    \/ Deliver

RetryNext == RetryStep(Paths, TwoImages)

RetrySpec == RaceInit /\ [][RetryNext]_vars

\* the same on one path and one image, which no retry depends on, and
\* threads that go on whenever they can
OnePath == {CHOOSE path \in Paths : TRUE}

FairRetryNext == RetryStep(OnePath, OneImage)

FairRetrySpec ==
    /\ RaceInit
    /\ [][FairRetryNext]_vars
    /\ \A pr \in Procs : WF_vars(Move(pr))

\* ---------------------------------------------------------------- properties
Occurrences(seq, x) == Cardinality({i \in DOMAIN seq : seq[i] = x})

\* C1: when requests run one at a time, after each add(p, img) completes
\* the store holds exactly one record of path p, and list(0, N) with N at
\* least the record count names p exactly once.
C1_OneRecordPerPath ==
    (last.op = "add" /\ last.status = "ok") =>
        /\ Cardinality(WithPath(store, last.path)) = 1
        /\ \A n \in count_images(store) .. MaxIds :
              Occurrences(paths_at_location(store, 0, n).paths, last.path) = 1

\* a re-add of a path, with a record of the other path in the store
C1_Witness ==
    /\ last.op = "add"
    /\ last.status = "ok"
    /\ WithPath(last.before, last.path) # {}
    /\ last.after = [op |-> "add", path |-> last.path]
    /\ Cardinality(store) = 2

\* C2: once overlapping adds of one path have all completed, the path has
\* a single record, the one inserted by the add that completed last.
C2_LastWriterWins ==
    (AllIdle /\ last.op = "add" /\ last.status = "ok" /\ last.overlap = "same_add") =>
        Ids(WithPath(store, last.path)) = {last.newId}

\* C3: after delete(p) completes with no other request running, no record
\* of path p remains.
C3_DeleteRemovesAll ==
    (last.op = "delete" /\ last.overlap = "none") =>
        WithPath(store, last.path) = {}

\* C4: delete(p) on a path with no record answers ok and leaves the store
\* as it was, also when the request before it was the same delete.
C4_DeleteAbsentNoop ==
    (last.op = "delete" /\ WithPath(last.before, last.path) = {}) =>
        /\ last.status = "ok"
        /\ store = last.before

\* the second of two deletes in a row of a path the store does not hold
C4_Witness ==
    /\ last.op = "delete"
    /\ WithPath(last.before, last.path) = {}
    /\ last.after = [op |-> "delete", path |-> last.path]
    /\ store # {}

\* the match sets a search of img may return in the current state
SearchOutcomes(img) ==
    {search_single_record(make_record(img), res, distance_cutoff).matches :
        res \in es_search_should(store, make_record(img).words, size)}

\* the result list names path with distance 0
FoundExact(matches, path) ==
    \E i \in DOMAIN search_result(matches) :
        /\ search_result(matches)[i].filepath = path
        /\ search_result(matches)[i].score = dist_to_percent(0)

\* C5 as stated: after add(p, img) completes, a search of img (cutoff > 0)
\* returns p with distance 0, whatever else the store holds.
C5_AddThenSearch ==
    (last.op = "add" /\ last.status = "ok" /\ distance_cutoff > 0) =>
        \A m \in SearchOutcomes(last.img) : FoundExact(m, last.path)

\* C5 amended: ... provided the records sharing a word-slot value with img
\* number at most ses.size, the page of candidates the search retrieves.
C5_AddThenSearchWithinPage ==
    (/\ last.op = "add"
     /\ last.status = "ok"
     /\ distance_cutoff > 0
     /\ Cardinality(Candidates(store, make_record(last.img).words)) <= size) =>
        \A m \in SearchOutcomes(last.img) : FoundExact(m, last.path)

\* an add whose image shares words with a record of another path
C5_Witness ==
    /\ last.op = "add"
    /\ last.status = "ok"
    /\ distance_cutoff > 0
    /\ Cardinality(Candidates(store, make_record(last.img).words)) = 2
    /\ size = 2
    /\ \E r \in store : r.path # last.path /\ r.signature # last.img

\* C6: when add(p, imgB) completes on a path that had a record, every id p
\* had before is gone, p's only record carries imgB's signature, and a
\* search of an old image returns p only if that image is within the
\* cutoff of imgB.
C6_ReAddReplaces ==
    (last.op = "add" /\ last.status = "ok" /\ WithPath(last.before, last.path) # {}) =>
        /\ Ids(WithPath(last.before, last.path)) \cap Ids(store) = {}
        /\ Cardinality(WithPath(store, last.path)) = 1
        /\ \A r \in WithPath(store, last.path) : r.signature = last.img
        /\ \A old \in WithPath(last.before, last.path) :
              \A m \in SearchOutcomes(old.signature) :
                  (\E x \in m : x.path = last.path) =>
                      normalized_distance(old.signature, last.img) < distance_cutoff

\* a re-add with another image that a search of the old image still finds
C6_Witness ==
    /\ last.op = "add"
    /\ last.status = "ok"
    /\ \E old \in WithPath(last.before, last.path) :
          /\ old.signature # last.img
          /\ \E m \in SearchOutcomes(old.signature) : \E x \in m : x.path = last.path

\* C7: the filter keeps a retrieved candidate if and only if its distance
\* is strictly below the cutoff.
C7_StrictCutoff ==
    last.op = "search" =>
        /\ \A m \in last.matches : m.dist < distance_cutoff
        /\ \A x \in last.hits :
              (\E m \in last.matches : m.id = x.id)
                  <=> normalized_distance(x.signature, last.img) < distance_cutoff

\* a search that retrieves one candidate at the cutoff and one below it
C7_Witness ==
    /\ last.op = "search"
    /\ \E x \in last.hits : normalized_distance(x.signature, last.img) = distance_cutoff
    /\ \E x \in last.hits : normalized_distance(x.signature, last.img) < distance_cutoff
    /\ Cardinality(last.matches) = 1

\* C8: a search that retrieves no candidate answers ok with an empty result
\* and never calls the distance engine.
C8_EmptyShortCircuit ==
    (last.op = "search" /\ last.hits = {}) =>
        /\ last.status = "ok"
        /\ last.result = << >>
        /\ last.distCalls = 0

\* a search of a store that holds records, none sharing a word with the query
C8_Witness ==
    /\ last.op = "search"
    /\ last.hits = {}
    /\ store # {}

\* C9: list clamps a negative offset and a negative limit to 0 before the
\* scan, for GET and POST; list(-n, -m) scans as list(0, 0) and is empty.
C9_ListClamps ==
    last.op = "list" =>
        LET offset == ListParam(last.params, "offset", 0)
            limit == ListParam(last.params, "limit", DefaultLimit)
        IN  /\ last.scan.offset >= 0
            /\ last.scan.limit >= 0
            /\ last.scan = [offset |-> Max(offset, 0), limit |-> Max(limit, 0)]
            /\ last.status = "ok"
            /\ limit < 0 => last.result = << >>
            /\ (offset < 0 /\ limit < 0) =>
                  /\ last.scan = [offset |-> 0, limit |-> 0]
                  /\ last.result = paths_at_location(store, 0, 0).paths

\* a POST list(-1, -1) on a store that holds records
C9_Witness ==
    /\ last.op = "list"
    /\ last.method = "POST"
    /\ "offset" \in DOMAIN last.params /\ last.params["offset"] < 0
    /\ "limit" \in DOMAIN last.params /\ last.params["limit"] < 0
    /\ store # {}

\* C11: an add(p, img) whose signature generation or insert fails answers
\* fail and has issued no delete: every record p had is still there and the
\* store is what it was before the request.
C11_FailedAddKeepsStore ==
    (last.op = "add" /\ last.status = "fail") =>
        /\ WithPath(last.before, last.path) \subseteq store
        /\ store = last.before

\* a failed re-add, with another image, of a path that has a record
C11_Witness ==
    /\ last.op = "add"
    /\ last.status = "fail"
    /\ \E r \in WithPath(last.before, last.path) : r.signature # last.img

\* C12: an add of a path that had a record deletes no old id before it has
\* inserted the new record, and, as long as no delete of the path runs
\* while it does, the path has a record in every state of the add.
C12_InsertBeforeDelete ==
    \A pr \in Procs :
        (Running(pr) /\ req[pr].op = "add" /\ req[pr].had) =>
            /\ req[pr].newId = 0 => (req[pr].swept = {} /\ req[pr].gone = {})
            /\ overlap[pr] # "delete" => WithPath(store, req[pr].path) # {}

\* an add between its insert and its deletes, when a search of its image
\* returns the old record and the new one
C12_Witness ==
    \E pr \in Procs :
        /\ pc[pr] = "delete_ids"
        /\ req[pr].op = "add"
        /\ \E m \in SearchOutcomes(req[pr].img) :
              /\ \E x \in m : x.id = req[pr].newId
              /\ \E y \in m : y.id \in old_ids[pr] /\ y.path = req[pr].path

\* C13: an es.delete of an id that is absent already is no error: every add
\* and delete that issued one answers ok, and the id stays absent.
C13_DeleteAbsentIdOk ==
    /\ (last.op \in {"add", "delete"} /\ last.status = "fail") =>
          (last.op = "add" /\ last.swept = {} /\ last.gone = {})
    /\ last.op \in {"add", "delete"} => last.gone \cap Ids(store) = {}
    /\ \A pr \in Procs : Running(pr) => req[pr].gone \cap Ids(store) = {}

\* two overlapping deletes of one path have both completed; the one that
\* completed last found the id it had collected deleted by the other
C13_Witness ==
    /\ AllIdle
    /\ last.op = "delete"
    /\ last.status = "ok"
    /\ last.gone # {}
    /\ last.overlap = "delete"
    /\ last.after = [op |-> "delete", path |-> last.path]

C15_ReadsChangeNothing ==
    [][(/\ last' # last
        /\ last'.op \in {"search", "compare", "list", "count", "ping"}) =>
           (store' = store /\ nextId' = nextId)]_vars

\* a search that failed, on a store that holds records
C15_Witness ==
    /\ store # {}
    /\ last.op = "search"
    /\ last.status = "fail"

\* C18: a backend call is made again max_retries times at most; a request
\* that waits for a backend that is down ends in a fail response only; and
\* every request ends.
C18_RetriesEnd ==
    /\ [](\A pr \in Procs : attempts[pr] <= max_retries)
    /\ [][\A pr \in Procs :
             (Pending(pr) /\ backend = "down" /\ ~Running(pr)') =>
                 (last'.op = req[pr].op /\ last'.status = "fail")]_vars
    /\ (\E pr \in Procs : Running(pr)) ~> AllIdle

\* an add that gave up after the last retry of an es.delete: it had inserted
\* its record already
C18_Witness ==
    /\ last.op = "add"
    /\ last.status = "fail"
    /\ last.tries = max_retries
    /\ last.newId # 0

\* C16: a search retrieves at most ses.size candidates, every record it
\* returns shares a word-slot value with the query, and a record that
\* shares none is not returned, however close its signature is.
C16_DisjunctiveBounded ==
    last.op = "search" =>
        /\ Cardinality(last.hits) <= size
        /\ \A x \in last.hits : Score(x, make_record(last.img).words) > 0
        /\ \A m \in last.matches :
              \E r \in store : r.id = m.id /\ Score(r, make_record(last.img).words) > 0
        /\ \A r \in store :
              Score(r, make_record(last.img).words) = 0 =>
                  \A m \in last.matches : m.id # r.id

\* a search that returns a record while the store holds another within the
\* cutoff that shares no word-slot value with the query
C16_Witness ==
    /\ last.op = "search"
    /\ last.matches # {}
    /\ Cardinality(last.hits) = size
    /\ \E r \in store :
          /\ Score(r, make_record(last.img).words) = 0
          /\ normalized_distance(r.signature, last.img) < distance_cutoff

\* C17: with requests one at a time, count() is the number of paths whose
\* latest completed request was an add: an add of a new path raises the
\* count by 1, a re-add leaves it, a delete of a present path lowers it by 1.
C17_CountTracksAdds ==
    /\ last.op = "count" => last.result = << Cardinality(added) >>
    /\ (last.op \in {"add", "delete"} /\ last.status = "ok") =>
          count_images(store) = count_images(last.before)
              + (IF last.op = "add" /\ ~last.had THEN 1 ELSE 0)
              - (IF last.op = "delete" /\ last.had THEN 1 ELSE 0)
    /\ AllIdle => count_images(store) = Cardinality(added)

\* a count after a delete of one path while the other path has its record
C17_Witness ==
    /\ last.op = "count"
    /\ last.after.op = "delete"
    /\ last.result = << 1 >>
    /\ \E r \in store : r.path # last.after.path

====
